---- MODULE Spec2Model ----
(***************************************************************************)
(* A model of the Carousel prompt tester (src/src/server.ts): the three    *)
(* request handlers (content generation, first image, remaining images),   *)
(* the prompt templating and image-instruction guard they share, and the   *)
(* slide content parser.                                                   *)
(*                                                                         *)
(* Text is modelled character by character: a string is a sequence of      *)
(* one-character strings, so that String.replace, String.includes,         *)
(* toLowerCase, trim and the parser's regular expressions are computed as  *)
(* the JavaScript engine computes them.                                    *)
(***************************************************************************)
EXTENDS Integers, Sequences, FiniteSets, TLC

VARIABLES
    reqs,      \* the HTTP requests: handler, position, inputs, locals, response
    now,       \* the wall clock read by Date.now(), in milliseconds
    disk,      \* the files that exist under uploads/carousel
    writes,    \* every fs.writeFileSync that wrote to its file, and whether it returned
    calls,     \* every ai.models.generateContent call issued, in order
    pending,   \* the generateContent calls in flight
    tp,        \* the image prompt pipeline run on its own (templating, guard)
    ps         \* parseSlideContent run on its own

vars == <<reqs, now, disk, writes, calls, pending, tp, ps>>

-----------------------------------------------------------------------------
(* JavaScript values and string primitives *)

\* The value of a request field the client did not send.
Undefined == <<"undefined-value">>

\* The character U+0060, which cannot be written inside a TLA+ string.
Backtick == "BACKTICK"

EmptyStr == <<>>

\* JS truthiness of a string-or-undefined value.
Truthy(v) == v # Undefined /\ v # EmptyStr

\* ToString applied to a string-or-undefined value (undefined prints as "undefined").
JsToString(v) ==
    IF v = Undefined THEN <<"u", "n", "d", "e", "f", "i", "n", "e", "d">> ELSE v

IsSpace(c) == c \in {" ", "\n", "\t", "\r"}

IsDigit(c) == c \in {"0", "1", "2", "3", "4", "5", "6", "7", "8", "9"}

UpperToLower ==
    [A |-> "a", B |-> "b", C |-> "c", D |-> "d", E |-> "e", F |-> "f",
     G |-> "g", H |-> "h", I |-> "i", J |-> "j", K |-> "k", L |-> "l",
     M |-> "m", N |-> "n", O |-> "o", P |-> "p", Q |-> "q", R |-> "r",
     S |-> "s", T |-> "t", U |-> "u", V |-> "v", W |-> "w", X |-> "x",
     Y |-> "y", Z |-> "z"]

ToLowerChar(c) == IF c \in DOMAIN UpperToLower THEN UpperToLower[c] ELSE c

\* String.prototype.toLowerCase
toLowerCase(s) == [i \in 1..Len(s) |-> ToLowerChar(s[i])]

\* pat occurs in s at index i (case-sensitive).
StartsAt(s, i, pat) ==
    /\ i >= 1
    /\ i + Len(pat) - 1 <= Len(s)
    /\ \A k \in 1..Len(pat) : s[i + k - 1] = pat[k]

\* pat (given in lower case) occurs in s at index i, ignoring case (the i flag).
StartsAtCI(s, i, pat) ==
    /\ i >= 1
    /\ i + Len(pat) - 1 <= Len(s)
    /\ \A k \in 1..Len(pat) : ToLowerChar(s[i + k - 1]) = pat[k]

\* String.prototype.includes
includes(s, pat) == \E i \in 1..(Len(s) - Len(pat) + 1) : StartsAt(s, i, pat)

Max(S) == CHOOSE x \in S : \A y \in S : y <= x

Min(S) == CHOOSE x \in S : \A y \in S : x <= y

\* String.prototype.trim: from the first to the last character that is not
\* white space.
trim(s) ==
    LET Inked == {i \in 1..Len(s) : ~IsSpace(s[i])}
    IN  IF Inked = {} THEN <<>> ELSE SubSeq(s, Min(Inked), Max(Inked))

\* The expansion of a replacement string (ECMAScript GetSubstitution) for a
\* pattern without capture groups: $$ is a dollar sign, $& the matched text,
\* $ followed by U+0060 the text before the match, $' the text after it.
RECURSIVE SubstituteFrom(_, _, _, _, _)
SubstituteFrom(matched, str, position, replacement, i) ==
    LET Dollars == {j \in i..(Len(replacement) - 1) :
                       /\ replacement[j] = "$"
                       /\ replacement[j + 1] \in {"$", "&", Backtick, "'"}}
    IN  IF Dollars = {} THEN SubSeq(replacement, i, Len(replacement))
        ELSE LET j == Min(Dollars)
             IN  SubSeq(replacement, i, j - 1)
                 \o (CASE replacement[j + 1] = "$" -> <<"$">>
                        [] replacement[j + 1] = "&" -> matched
                        [] replacement[j + 1] = Backtick -> SubSeq(str, 1, position - 1)
                        [] OTHER -> SubSeq(str, position + Len(matched), Len(str)))
                 \o SubstituteFrom(matched, str, position, replacement, j + 2)

GetSubstitution(matched, str, position, replacement) ==
    SubstituteFrom(matched, str, position, replacement, 1)

\* str.replace(/pat/g, replacement) for a literal pattern: one left-to-right
\* scan of str; the text put in for a match is not scanned again.
RECURSIVE ReplaceFrom(_, _, _, _)
ReplaceFrom(str, pat, replacement, i) ==
    LET Matches == {p \in i..Len(str) : StartsAt(str, p, pat)}
    IN  IF Matches = {} THEN SubSeq(str, i, Len(str))
        ELSE LET p == Min(Matches)
             IN  SubSeq(str, i, p - 1)
                 \o GetSubstitution(pat, str, p, replacement)
                 \o ReplaceFrom(str, pat, replacement, p + Len(pat))

replace(str, pat, replacement) == ReplaceFrom(str, pat, replacement, 1)

-----------------------------------------------------------------------------
(* Prompt templating and the image-instruction guard *)

HeadingPlaceholder == <<"{", "h", "e", "a", "d", "i", "n", "g", "}">>

ExplanationPlaceholder ==
    <<"{", "e", "x", "p", "l", "a", "n", "a", "t", "i", "o", "n", "}">>

TranscriptPlaceholder ==
    <<"{", "t", "r", "a", "n", "s", "c", "r", "i", "p", "t", "}">>

InstructionPrefix ==
    <<"G", "e", "n", "e", "r", "a", "t", "e", " ", "a", "n", " ",
      "i", "m", "a", "g", "e", ":", " ">>

\* !finalPrompt || finalPrompt.trim() === ""
IsBlankPrompt(prompt) == ~Truthy(prompt) \/ trim(prompt) = EmptyStr

\* finalPrompt.replace(/\{heading\}/g, heading).replace(/\{explanation\}/g, explanation)
ReplacePlaceholders(finalPrompt, heading, explanation) ==
    replace(replace(finalPrompt, HeadingPlaceholder, JsToString(heading)),
            ExplanationPlaceholder, JsToString(explanation))

\* prompt.replace(/\{transcript\}/g, transcript)
ReplaceTranscript(prompt, transcript) ==
    replace(prompt, TranscriptPlaceholder, JsToString(transcript))

\* A guard that compares without lower-casing the prompt first.
GuardCaseSensitive(finalPrompt) ==
    IF /\ ~includes(finalPrompt, <<"g", "e", "n", "e", "r", "a", "t", "e">>)
       /\ ~includes(finalPrompt, <<"c", "r", "e", "a", "t", "e">>)
       /\ ~includes(finalPrompt, <<"i", "m", "a", "g", "e">>)
    THEN InstructionPrefix \o finalPrompt
    ELSE finalPrompt

\* A guard that never adds the instruction.
GuardDropped(finalPrompt) == finalPrompt

\* if none of "generate", "create", "image" occurs in the lower-cased prompt,
\* finalPrompt becomes "Generate an image: " followed by finalPrompt.
ImageInstructionGuard(finalPrompt) ==
    IF /\ ~includes(toLowerCase(finalPrompt), <<"g", "e", "n", "e", "r", "a", "t", "e">>)
       /\ ~includes(toLowerCase(finalPrompt), <<"c", "r", "e", "a", "t", "e">>)
       /\ ~includes(toLowerCase(finalPrompt), <<"i", "m", "a", "g", "e">>)
    THEN InstructionPrefix \o finalPrompt
    ELSE finalPrompt

-----------------------------------------------------------------------------
(* parseSlideContent: the regular expressions, matched as a backtracking    *)
(* engine matches them (leftmost start, greedy and lazy quantifiers in      *)
(* priority order)                                                          *)

NoMatch == [found |-> FALSE, cap |-> <<>>]

\* The length of the longest run of \s starting at index i.
SpaceRun(s, i) ==
    Min({n \in 0..(Len(s) + 1) : i + n > Len(s) \/ ~IsSpace(s[i + n])})

\* The length of the longest run of \d starting at index i.
DigitRun(s, i) ==
    Min({n \in 0..(Len(s) + 1) : i + n > Len(s) \/ ~IsDigit(s[i + n])})

AllSpace(s, from, to) == \A x \in from..to : IsSpace(s[x])

NoNewline(s, from, to) == \A x \in from..to : s[x] # "\n"

LitSlide == <<"s", "l", "i", "d", "e">>

LitHeading == <<"h", "e", "a", "d", "i", "n", "g", ":">>

LitExplanation ==
    <<"e", "x", "p", "l", "a", "n", "a", "t", "i", "o", "n", ":">>

\* The length of the match of /Slide\s+(\d+)/i at index i; 0 when there is none.
SlideMarkerLen(s, i) ==
    IF StartsAtCI(s, i, LitSlide)
    THEN LET w == SpaceRun(s, i + 5)
             d == DigitRun(s, i + 5 + w)
         IN  IF w >= 1 /\ d >= 1 THEN 5 + w + d ELSE 0
    ELSE 0

RECURSIVE SplitFrom(_, _)
SplitFrom(text, i) ==
    LET Markers == {p \in i..Len(text) : SlideMarkerLen(text, p) > 0}
    IN  IF Markers = {} THEN <<SubSeq(text, i, Len(text))>>
        ELSE LET p == Min(Markers)
                 m == SlideMarkerLen(text, p)
                 w == SpaceRun(text, p + 5)
             IN  <<SubSeq(text, i, p - 1), SubSeq(text, p + 5 + w, p + m - 1)>>
                 \o SplitFrom(text, p + m)

\* text.split(/Slide\s+(\d+)/gi): the text before the first marker, then for
\* each marker its digits and the text up to the next marker.
split(text) == SplitFrom(text, 1)

DigitValue ==
    [c \in {"0", "1", "2", "3", "4", "5", "6", "7", "8", "9"} |->
        CASE c = "0" -> 0 [] c = "1" -> 1 [] c = "2" -> 2 [] c = "3" -> 3
          [] c = "4" -> 4 [] c = "5" -> 5 [] c = "6" -> 6 [] c = "7" -> 7
          [] c = "8" -> 8 [] OTHER -> 9]

RECURSIVE parseInt(_)
\* parseInt(digits, 10) of a non-empty run of digits.
parseInt(d) ==
    IF d = <<>> THEN 0
    ELSE 10 * parseInt(SubSeq(d, 1, Len(d) - 1)) + DigitValue[d[Len(d)]]

\* \n\s*\n matches at q.
BlankLineAt(s, q) ==
    /\ q <= Len(s)
    /\ s[q] = "\n"
    /\ \E j \in (q + 1)..Len(s) : s[j] = "\n" /\ AllSpace(s, q + 1, j - 1)

\* (?:\n\s*\n|Explanation:) matches at q.
HeadingEnd(s, q) == BlankLineAt(s, q) \/ StartsAtCI(s, q, LitExplanation)

\* A match with its capture. A pattern matches at the leftmost index it can
\* start at: Min(Starts), with Pick(p) the capture of the match starting at p.
Matched(cap) == [found |-> TRUE, cap |-> cap]

\* /Heading:\s*([^\n]+?)(?:\n\s*\n|Explanation:)/is
\* \s* is greedy (longest run first), the capture lazy (shortest first).
H1Lens(s, c) ==
    {n \in 1..(Len(s) - c + 1) : NoNewline(s, c, c + n - 1) /\ HeadingEnd(s, c + n)}

H1Skips(s, a) == {k \in 0..SpaceRun(s, a) : H1Lens(s, a + k) # {}}

HeadingPattern1(s) ==
    LET Starts == {p \in 1..Len(s) :
                      StartsAtCI(s, p, LitHeading) /\ H1Skips(s, p + 8) # {}}
        Pick(p) == LET c == p + 8 + Max(H1Skips(s, p + 8))
                   IN  SubSeq(s, c, c + Min(H1Lens(s, c)) - 1)
    IN  IF Starts = {} THEN NoMatch ELSE Matched(Pick(Min(Starts)))

\* /Heading:\s*([^\n]+)/i
H2Skips(s, a) ==
    {k \in 0..SpaceRun(s, a) : a + k <= Len(s) /\ s[a + k] # "\n"}

HeadingPattern2(s) ==
    LET Starts == {p \in 1..Len(s) :
                      StartsAtCI(s, p, LitHeading) /\ H2Skips(s, p + 8) # {}}
        Pick(p) == LET c == p + 8 + Max(H2Skips(s, p + 8))
                       n == Max({m \in 1..(Len(s) - c + 1) : NoNewline(s, c, c + m - 1)})
                   IN  SubSeq(s, c, c + n - 1)
    IN  IF Starts = {} THEN NoMatch ELSE Matched(Pick(Min(Starts)))

\* /Heading:\s*(.+?)(?:\n|$)/is  (the s flag lets . match a newline)
H3Skips(s, a) == {k \in 0..SpaceRun(s, a) : a + k <= Len(s)}

HeadingPattern3(s) ==
    LET Starts == {p \in 1..Len(s) :
                      StartsAtCI(s, p, LitHeading) /\ H3Skips(s, p + 8) # {}}
        Pick(p) == LET c == p + 8 + Max(H3Skips(s, p + 8))
                       n == Min({m \in 1..(Len(s) - c + 1) :
                                    c + m = Len(s) + 1 \/ s[c + m] = "\n"})
                   IN  SubSeq(s, c, c + n - 1)
    IN  IF Starts = {} THEN NoMatch ELSE Matched(Pick(Min(Starts)))

\* heading.replace(/\*\*/g, "").replace(/__/g, "")
StripEmphasis(s) == replace(replace(s, <<"*", "*">>, <<>>), <<"_", "_">>, <<>>)

\* The heading loop: the first pattern that matches decides, whatever it captured.
ExtractHeading(content) ==
    LET m1 == HeadingPattern1(content)
        m2 == HeadingPattern2(content)
        m3 == HeadingPattern3(content)
    IN  IF m1.found THEN StripEmphasis(trim(m1.cap))
        ELSE IF m2.found THEN StripEmphasis(trim(m2.cap))
        ELSE IF m3.found THEN StripEmphasis(trim(m3.cap))
        ELSE EmptyStr

\* (?=\n\s*Slide\s+\d+|$) holds at q.
ExplanationEnd1(s, q) ==
    \/ q = Len(s) + 1
    \/ /\ q <= Len(s)
       /\ s[q] = "\n"
       /\ \E j \in (q + 1)..Len(s) :
              AllSpace(s, q + 1, j - 1) /\ SlideMarkerLen(s, j) > 0

\* \n\s*\n\s*Slide matches at q.
BlankLineSlideAt(s, q) ==
    /\ q <= Len(s)
    /\ s[q] = "\n"
    /\ \E j \in (q + 1)..Len(s) :
          /\ s[j] = "\n"
          /\ AllSpace(s, q + 1, j - 1)
          /\ \E m \in (j + 1)..Len(s) :
                AllSpace(s, j + 1, m - 1) /\ StartsAtCI(s, m, LitSlide)

\* (?=\n\s*\n\s*Slide|$) holds at q.
ExplanationEnd2(s, q) == q = Len(s) + 1 \/ BlankLineSlideAt(s, q)

\* Explanation:\s* followed by at least one character: the greedy \s* gives
\* back one character when the run of white space reaches the end of the text.
ESkips(s, a) == {k \in 0..SpaceRun(s, a) : a + k <= Len(s)}

EStarts(s) ==
    {p \in 1..Len(s) : StartsAtCI(s, p, LitExplanation) /\ ESkips(s, p + 12) # {}}

\* /Explanation:\s*([\s\S]+?)(?=\n\s*Slide\s+\d+|$)/i
ExplanationPattern1(s) ==
    LET Pick(p) == LET c == p + 12 + Max(ESkips(s, p + 12))
                       n == Min({m \in 1..(Len(s) - c + 1) : ExplanationEnd1(s, c + m)})
                   IN  SubSeq(s, c, c + n - 1)
    IN  IF EStarts(s) = {} THEN NoMatch ELSE Matched(Pick(Min(EStarts(s))))

\* /Explanation:\s*([\s\S]+?)(?=\n\s*\n\s*Slide|$)/i
ExplanationPattern2(s) ==
    LET Pick(p) == LET c == p + 12 + Max(ESkips(s, p + 12))
                       n == Min({m \in 1..(Len(s) - c + 1) : ExplanationEnd2(s, c + m)})
                   IN  SubSeq(s, c, c + n - 1)
    IN  IF EStarts(s) = {} THEN NoMatch ELSE Matched(Pick(Min(EStarts(s))))

\* /Explanation:\s*([\s\S]+)/i
ExplanationPattern3(s) ==
    LET Pick(p) == SubSeq(s, p + 12 + Max(ESkips(s, p + 12)), Len(s))
    IN  IF EStarts(s) = {} THEN NoMatch ELSE Matched(Pick(Min(EStarts(s))))

\* explanation.replace(/\n\s*\n\s*Slide.*$/is, ""): the text from the first
\* blank line that is followed by "Slide" to the end is removed.
RemoveTrailingSlide(s) ==
    LET Starts == {q \in 1..Len(s) : BlankLineSlideAt(s, q)}
    IN  IF Starts = {} THEN s ELSE SubSeq(s, 1, Min(Starts) - 1)

\* The body of the explanation loop for one match.
CleanExplanation(cap) == StripEmphasis(trim(RemoveTrailingSlide(trim(cap))))

\* The explanation loop: a pattern decides only if what it leaves is not empty.
ExtractExplanation(content) ==
    LET m1 == ExplanationPattern1(content)
        m2 == ExplanationPattern2(content)
        m3 == ExplanationPattern3(content)
        e1 == IF m1.found THEN CleanExplanation(m1.cap) ELSE EmptyStr
        e2 == IF m2.found THEN CleanExplanation(m2.cap) ELSE e1
        e3 == IF m3.found THEN CleanExplanation(m3.cap) ELSE e2
    IN  IF m1.found /\ e1 # EmptyStr THEN e1
        ELSE IF m2.found /\ e2 # EmptyStr THEN e2
        ELSE e3

\* One iteration of the loop over slideMatches: the record pushed for the
\* marker at index i, as a sequence of zero or one records.
ParseBlock(slideMatches, i) ==
    LET slideNum == parseInt(slideMatches[i])
        content == IF i + 1 <= Len(slideMatches) THEN slideMatches[i + 1] ELSE EmptyStr
        heading == ExtractHeading(content)
        explanation == ExtractExplanation(content)
    IN  IF heading # EmptyStr /\ explanation # EmptyStr
        THEN <<[slideNumber |-> slideNum, heading |-> heading,
                explanation |-> explanation]>>
        ELSE <<>>

RECURSIVE ParseLoop(_, _)
ParseLoop(slideMatches, i) ==
    IF i >= Len(slideMatches) + 1 THEN <<>>
    ELSE ParseBlock(slideMatches, i) \o ParseLoop(slideMatches, i + 2)

parseSlideContent(text) == ParseLoop(split(text), 1 + 1)

-----------------------------------------------------------------------------
(* The server: requests, the clock, the uploads directory, the external API *)

\* The concurrent requests of the server specification.
Reqs == {1, 2}

\* Date.now() never exceeds MaxTime in the model.
MaxTime == 2

\* The longest slides list a client sends.
MaxSlides == 2

\* A file of uploadsDir, test-slide-<slideNumber>-<timestamp>.png, and its
\* URL /uploads/carousel/<file name>.
FileName(slideNumber, timestamp) ==
    [slideNumber |-> slideNumber, timestamp |-> timestamp]

\* imageUrl: null
NoFile == [slideNumber |-> -1, timestamp |-> -1]

\* A file left in uploads/carousel by an earlier run of the server.
EarlierFile == FileName(1, 0)

NoSlides == [present |-> FALSE, items |-> <<>>]

SlidesList(items) == [present |-> TRUE, items |-> items]

NoUrl == [given |-> FALSE, file |-> NoFile]

UrlOf(file) == [given |-> TRUE, file |-> file]

PromptRequiredFirst ==
    "Prompt is required. Please provide a prompt in the first image prompt box."

PromptRequiredRemaining ==
    "Prompt is required. Please provide a prompt in the remaining images prompt box."

IdleReq ==
    [handler |-> "none", pc |-> "idle",
     prompt |-> Undefined, transcript |-> Undefined,
     heading |-> Undefined, explanation |-> Undefined, slideNumber |-> 0,
     slides |-> NoSlides, firstImageUrl |-> NoUrl,
     refExisted |-> FALSE, readOk |-> FALSE,
     i |-> 0, templated |-> <<>>, finalPrompt |-> <<>>,
     results |-> <<>>, outcomes |-> <<>>,
     status |-> 0, error |-> "", message |-> "",
     slidesOut |-> <<>>, rawResponse |-> <<>>, imageUrl |-> NoFile]

\* res.status(code).json({error, message}) and the return that follows it.
RespondError(q, code, error, message) ==
    [q EXCEPT !.pc = "done", !.status = code, !.error = error, !.message = message]

\* res.json({success: true, ...})
RespondSuccess(q) == [q EXCEPT !.pc = "done", !.status = 200]

\* A generateContent call: who issued it, for which item, with what text.
Call(r, handler, idx, contents) ==
    [req |-> r, handler |-> handler, idx |-> idx, contents |-> contents]

PendingCall(r, idx) == [req |-> r, idx |-> idx]

\* The pending calls a sequence of issued calls adds.
PendingOf(issued) == {PendingCall(issued[k].req, issued[k].idx) : k \in 1..Len(issued)}

(* POST /api/generate-content *)

\* The JSON.stringify(response) of a response with neither text nor parts.
StringifiedResponse == <<"{", "}">>

RECURSIVE JoinParts(_)
\* parts.map(part => part.text || "").join("")
JoinParts(parts) ==
    IF parts = <<>> THEN <<>>
    ELSE (IF Truthy(Head(parts)) THEN Head(parts) ELSE EmptyStr) \o JoinParts(Tail(parts))

\* The text taken from a text-generation response.
ExtractText(response) ==
    IF Truthy(response.text) THEN response.text
    ELSE IF response.parts.present THEN JoinParts(response.parts.items)
    ELSE StringifiedResponse

\* The handler up to its await: the two checks, the templating, the call.
ContentStart(q) ==
    IF ~Truthy(q.transcript)
    THEN RespondError(q, 400, "Transcript is required", "")
    ELSE IF IsBlankPrompt(q.prompt)
    THEN RespondError(q, 400, "Prompt is required",
             "Please provide a content generation prompt in the first text box")
    ELSE [q EXCEPT !.pc = "awaitContent",
                   !.finalPrompt = ReplaceTranscript(q.prompt, q.transcript)]

ContentArrive(r, Prompts, Transcripts) ==
    /\ reqs[r].pc = "idle"
    /\ \E prompt \in Prompts, transcript \in Transcripts :
          LET q == ContentStart([reqs[r] EXCEPT !.handler = "content",
                                     !.prompt = prompt, !.transcript = transcript])
              issued == IF q.pc = "awaitContent"
                        THEN <<Call(r, "content", 0, q.finalPrompt)>> ELSE <<>>
          IN  /\ reqs' = [reqs EXCEPT ![r] = q]
              /\ calls' = [calls EXCEPT ![r] = @ \o issued]
              /\ pending' = pending \cup PendingOf(issued)
    /\ UNCHANGED <<now, disk, writes, tp, ps>>

\* The handler from its await on: the call rejected (the catch), or resolved.
ContentResume(q, response) ==
    IF response.kind = "reject"
    THEN RespondError(q, 500, "Failed to generate content", "api error")
    ELSE LET text == ExtractText(response)
         IN  [RespondSuccess(q) EXCEPT !.slidesOut = parseSlideContent(text),
                                       !.rawResponse = text]

ContentResolve(r, Responses) ==
    /\ reqs[r].pc = "awaitContent"
    /\ PendingCall(r, 0) \in pending
    /\ \E response \in Responses :
          reqs' = [reqs EXCEPT ![r] = ContentResume(reqs[r], response)]
    /\ pending' = pending \ {PendingCall(r, 0)}
    /\ UNCHANGED <<now, disk, writes, calls, tp, ps>>

(* POST /api/generate-first-image *)

\* let finalPrompt = prompt || ""; if (!finalPrompt || finalPrompt.trim() === "")
PromptMissing(prompt) == IsBlankPrompt(IF Truthy(prompt) THEN prompt ELSE EmptyStr)

\* The handler up to its await.
FirstStart(q) ==
    IF ~Truthy(q.heading) \/ ~Truthy(q.explanation)
    THEN RespondError(q, 400, "Heading and explanation are required", "")
    ELSE IF PromptMissing(q.prompt)
    THEN RespondError(q, 500, "Failed to generate first image", PromptRequiredFirst)
    ELSE LET templated == ReplacePlaceholders(q.prompt, q.heading, q.explanation)
         IN  [q EXCEPT !.pc = "awaitFirst", !.templated = templated,
                       !.finalPrompt = ImageInstructionGuard(templated)]

FirstArrive(r, Prompts, Headings, Explanations, SlideNumbers) ==
    /\ reqs[r].pc = "idle"
    /\ \E prompt \in Prompts, heading \in Headings, explanation \in Explanations,
          slideNumber \in SlideNumbers :
          LET q == FirstStart([reqs[r] EXCEPT !.handler = "first",
                                   !.prompt = prompt, !.heading = heading,
                                   !.explanation = explanation,
                                   !.slideNumber = slideNumber])
              issued == IF q.pc = "awaitFirst"
                        THEN <<Call(r, "first", 0, q.finalPrompt)>> ELSE <<>>
          IN  /\ reqs' = [reqs EXCEPT ![r] = q]
              /\ calls' = [calls EXCEPT ![r] = @ \o issued]
              /\ pending' = pending \cup PendingOf(issued)
    /\ UNCHANGED <<now, disk, writes, tp, ps>>

\* What fs.writeFileSync(filepath, buffer) can do: write the file and return,
\* throw before the file is opened, or throw after it opened (and so created
\* or truncated) the file.
WriteOutcomes == {"written", "refused", "partial"}

\* The record of a writeFileSync that touched its file.
WriteOf(r, idx, file, write) ==
    [file |-> file, req |-> r, idx |-> idx, returned |-> (write = "written")]

\* What an image-generation call can come back with.
ImageResponses == {"reject", "no-candidates", "no-parts", "no-image", "image"}

\* The message thrown for a response the first-image handler cannot use.
FirstFailure(response) ==
    CASE response = "reject" -> "api error"
      [] response = "no-candidates" -> "No candidates in response"
      [] response = "no-parts" -> "No content parts in response"
      [] OTHER -> "No image data found in response"

FirstResolve(r) ==
    /\ reqs[r].pc = "awaitFirst"
    /\ PendingCall(r, 0) \in pending
    /\ pending' = pending \ {PendingCall(r, 0)}
    /\ \E response \in ImageResponses, write \in WriteOutcomes :
          LET q == reqs[r]
              file == FileName(q.slideNumber, now)
          IN  IF response # "image"
              THEN /\ reqs' = [reqs EXCEPT ![r] =
                          RespondError(q, 500, "Failed to generate first image",
                                       FirstFailure(response))]
                   /\ UNCHANGED <<disk, writes>>
              ELSE IF write = "refused"
              THEN /\ reqs' = [reqs EXCEPT ![r] =
                          RespondError(q, 500, "Failed to generate first image",
                                       "write error")]
                   /\ UNCHANGED <<disk, writes>>
              ELSE IF write = "partial"
              THEN /\ reqs' = [reqs EXCEPT ![r] =
                          RespondError(q, 500, "Failed to generate first image",
                                       "write error")]
                   /\ disk' = disk \cup {file}
                   /\ writes' = writes \cup {WriteOf(r, 0, file, write)}
              ELSE /\ disk' = disk \cup {file}
                   /\ writes' = writes \cup {WriteOf(r, 0, file, write)}
                   /\ reqs' = [reqs EXCEPT ![r] =
                          [RespondSuccess(q) EXCEPT !.imageUrl = file]]
    /\ UNCHANGED <<now, calls, tp, ps>>

(* POST /api/generate-remaining-images *)

Completed(slide, file) ==
    [slideNumber |-> slide.slideNumber, imageUrl |-> file,
     status |-> "completed", error |-> ""]

Failed(slide, message) ==
    [slideNumber |-> slide.slideNumber, imageUrl |-> NoFile,
     status |-> "failed", error |-> message]

\* A catch that swallows the error without recording a result.
CatchItemSwallow(q, message) == q

\* The catch inside the loop: the item's failure becomes its result.
CatchItem(q, message) ==
    [q EXCEPT !.results = Append(@, Failed(q.slides.items[q.i], message))]

\* The end of the try: the item's result is pushed.
PushCompleted(q, file) ==
    [q EXCEPT !.results = Append(@, Completed(q.slides.items[q.i], file))]

\* The loop moves to the next slide; outcome is what happened to this one.
NextSlide(q, outcome) == [q EXCEPT !.i = @ + 1, !.outcomes = Append(@, outcome)]

RECURSIVE RunLoop(_)
\* The loop from the top of the iteration for slide q.i up to the next await,
\* or, past the last slide, the response.
RunLoop(q) ==
    IF q.i > Len(q.slides.items) THEN RespondSuccess(q)
    ELSE IF PromptMissing(q.prompt)
    THEN RunLoop(NextSlide(CatchItem(q, PromptRequiredRemaining), "blank-prompt"))
    ELSE LET slide == q.slides.items[q.i]
             templated == ReplacePlaceholders(q.prompt, slide.heading, slide.explanation)
         IN  [q EXCEPT !.pc = "awaitRemaining", !.templated = templated,
                       !.finalPrompt = ImageInstructionGuard(templated)]

\* A loop that starts the calls for all the slides left without awaiting any.
IssueAllAtOnce(r, q) ==
    IF q.pc # "awaitRemaining" THEN <<>>
    ELSE [k \in 1..(Len(q.slides.items) - q.i + 1) |->
            Call(r, "remaining", q.i + k - 1,
                 ImageInstructionGuard(
                     ReplacePlaceholders(q.prompt,
                                         q.slides.items[q.i + k - 1].heading,
                                         q.slides.items[q.i + k - 1].explanation)))]

\* The calls the loop starts when it stops at its await: the one for slide q.i.
IssueCalls(r, q) ==
    IF q.pc # "awaitRemaining" THEN <<>>
    ELSE <<Call(r, "remaining", q.i, q.finalPrompt)>>

\* The handler up to its first await (or its response).
RemainingStart(q) ==
    IF ~q.slides.present \/ Len(q.slides.items) = 0
    THEN RespondError(q, 400, "Slides are required", "")
    ELSE IF ~q.firstImageUrl.given
    THEN RespondError(q, 400, "First image URL is required", "")
    ELSE IF ~q.refExisted
    THEN RespondError(q, 400, "Reference image not found", "")
    ELSE IF ~q.readOk
    THEN RespondError(q, 500, "Failed to generate remaining images", "read error")
    ELSE RunLoop([q EXCEPT !.i = 1])

RemainingArrive(r, Prompts, SlideLists, Urls) ==
    /\ reqs[r].pc = "idle"
    /\ \E prompt \in Prompts, slides \in SlideLists, url \in Urls, readOk \in BOOLEAN :
          LET q == RemainingStart([reqs[r] EXCEPT !.handler = "remaining",
                                       !.prompt = prompt, !.slides = slides,
                                       !.firstImageUrl = url,
                                       !.refExisted = (url.given /\ url.file \in disk),
                                       !.readOk = readOk])
              issued == IssueCalls(r, q)
          IN  /\ reqs' = [reqs EXCEPT ![r] = q]
              /\ calls' = [calls EXCEPT ![r] = @ \o issued]
              /\ pending' = pending \cup PendingOf(issued)
    /\ UNCHANGED <<now, disk, writes, tp, ps>>

\* The message thrown for a response the loop cannot use.
RemainingFailure(response) ==
    CASE response = "reject" -> "api error"
      [] response = "no-candidates" -> "No candidates in response"
      [] OTHER -> "No image data found"

RemainingResolve(r) ==
    /\ reqs[r].pc = "awaitRemaining"
    /\ PendingCall(r, reqs[r].i) \in pending
    /\ \E response \in ImageResponses, write \in WriteOutcomes :
          LET q == reqs[r]
              file == FileName(q.slides.items[q.i].slideNumber, now)
              written == response = "image" /\ write = "written"
              touched == response = "image" /\ write # "refused"
              after == IF written THEN NextSlide(PushCompleted(q, file), "ok")
                       ELSE IF response = "image"
                       THEN NextSlide(CatchItem(q, "write error"), "write-error")
                       ELSE NextSlide(CatchItem(q, RemainingFailure(response)), response)
              next == RunLoop(after)
              issued == IssueCalls(r, next)
          IN  /\ reqs' = [reqs EXCEPT ![r] = next]
              /\ disk' = IF touched THEN disk \cup {file} ELSE disk
              /\ writes' = IF touched
                           THEN writes \cup {WriteOf(r, q.i, file, write)}
                           ELSE writes
              /\ calls' = [calls EXCEPT ![r] = @ \o issued]
              /\ pending' = (pending \ {PendingCall(r, q.i)}) \cup PendingOf(issued)
    /\ UNCHANGED <<now, tp, ps>>

\* A millisecond passes.
Tick ==
    /\ now < MaxTime
    /\ now' = now + 1
    /\ UNCHANGED <<reqs, disk, writes, calls, pending, tp, ps>>

-----------------------------------------------------------------------------
(* The image prompt pipeline on its own: lines 130-147 and 251-268 *)

\* The most pieces a prompt template is made of.
MaxChunks == 2

DrawABlueCircle ==
    <<"D", "r", "a", "w", " ", "a", " ", "b", "l", "u", "e", " ",
      "c", "i", "r", "c", "l", "e">>

ARedSquare == <<"A", " ", "r", "e", "d", " ", "s", "q", "u", "a", "r", "e">>

Cats == <<"C", "a", "t", "s">>

Dogs == <<"D", "o", "g", "s">>

Independent == <<"I", "n", "d", "e", "p", "e", "n", "d", "e", "n", "t", ".">>

Loyal == <<"L", "o", "y", "a", "l", ".">>

PromptChunks ==
    {HeadingPlaceholder, ExplanationPlaceholder, DrawABlueCircle, ARedSquare,
     <<" ">>, <<"I", "m", "a", "g", "e">>,
     <<"r", "e", "-", "C", "R", "E", "A", "T", "E">>,
     <<"{">>, <<"e", "x", "p", "l", "a", "n", "a", "t", "i", "o", "n", "}">>}

RECURSIVE ChunkTexts(_)
\* The texts made of at most n chunks.
ChunkTexts(n) ==
    IF n = 0 THEN {EmptyStr}
    ELSE LET Shorter == ChunkTexts(n - 1)
         IN  Shorter \cup {c \o t : c \in PromptChunks, t \in Shorter}

PipelineHeadings ==
    {Cats, ExplanationPlaceholder, <<"$", "&">>,
     <<"g", "e", "n", "e", "r", "a", "t", "e", "d">>}

PipelineExplanations ==
    {Independent, HeadingPlaceholder, <<"$", "'">>,
     <<"A", "n", " ", "I", "M", "A", "G", "E">>}

TpIdle ==
    [pc |-> "idle", prompt |-> <<>>, heading |-> <<>>, explanation |-> <<>>,
     templated |-> <<>>, finalPrompt |-> <<>>, contents |-> <<>>]

\* let finalPrompt = prompt || ""; the blank check
PipelineCheck ==
    /\ tp.pc = "start"
    /\ tp' = IF PromptMissing(tp.prompt)
             THEN [tp EXCEPT !.pc = "rejected"]
             ELSE [tp EXCEPT !.pc = "checked", !.finalPrompt = tp.prompt]
    /\ UNCHANGED <<reqs, now, disk, writes, calls, pending, ps>>

PipelineReplace ==
    /\ tp.pc = "checked"
    /\ LET templated == ReplacePlaceholders(tp.finalPrompt, tp.heading, tp.explanation)
       IN  tp' = [tp EXCEPT !.pc = "templated", !.templated = templated,
                            !.finalPrompt = templated]
    /\ UNCHANGED <<reqs, now, disk, writes, calls, pending, ps>>

PipelineGuard ==
    /\ tp.pc = "templated"
    /\ tp' = [tp EXCEPT !.pc = "guarded",
                        !.finalPrompt = ImageInstructionGuard(tp.finalPrompt)]
    /\ UNCHANGED <<reqs, now, disk, writes, calls, pending, ps>>

\* contents: finalPrompt
PipelineSend ==
    /\ tp.pc = "guarded"
    /\ tp' = [tp EXCEPT !.pc = "sent", !.contents = tp.finalPrompt]
    /\ UNCHANGED <<reqs, now, disk, writes, calls, pending, ps>>

-----------------------------------------------------------------------------
(* parseSlideContent on its own *)

\* The most slide blocks a text is made of.
MaxBlocks == 2

BlockNumbers == {<<"1">>, <<"2">>, <<"0">>}

\* What follows "Heading: " in a block; Undefined: the block has no such line.
BlockHeadings ==
    {Undefined, EmptyStr, Cats, <<"*", "*", "C", "a", "t", "s", "*", "*">>,
     <<"*", "*", " ", "*", "*">>}

\* What follows "Explanation: " in a block; Undefined: the block has no such line.
BlockExplanations ==
    {Undefined, EmptyStr, Independent,
     <<"_", "_", "L", "o", "y", "a", "l", ".", "_", "_">>,
     <<"A", ".", "\n", "\n", "S", "l", "i", "d", "e", "s", " ", "r", "o", "c", "k", ".">>}

Blocks ==
    [num : BlockNumbers, heading : BlockHeadings, explanation : BlockExplanations]

\* What precedes the first block.
Preambles ==
    {EmptyStr,
     <<"N", "o", " ", "s", "l", "i", "d", "e", "s", " ", "h", "e", "r", "e", ".", "\n">>}

RECURSIVE BlockLists(_)
BlockLists(n) ==
    IF n = 0 THEN {<<>>}
    ELSE LET Shorter == BlockLists(n - 1)
         IN  Shorter \cup {<<b>> \o l : b \in Blocks, l \in {x \in Shorter : Len(x) = n - 1}}

\* The text of a block: "Slide N", then its Heading and Explanation lines.
BlockText(b) ==
    <<"S", "l", "i", "d", "e", " ">> \o b.num \o <<"\n">>
    \o (IF b.heading = Undefined THEN EmptyStr
        ELSE <<"H", "e", "a", "d", "i", "n", "g", ":", " ">> \o b.heading \o <<"\n">>)
    \o (IF b.explanation = Undefined THEN EmptyStr
        ELSE <<"E", "x", "p", "l", "a", "n", "a", "t", "i", "o", "n", ":", " ">>
             \o b.explanation \o <<"\n">>)

RECURSIVE BlocksText(_)
BlocksText(blocks) ==
    IF blocks = <<>> THEN EmptyStr ELSE BlockText(Head(blocks)) \o BlocksText(Tail(blocks))

PsIdle ==
    [pc |-> "idle", blocks |-> <<>>, text |-> <<>>, slideMatches |-> <<>>,
     i |-> 0, slides |-> <<>>, origin |-> <<>>]

\* const slideMatches = text.split(/Slide\s+(\d+)/gi); let i = 1 (index 2 here)
ParseSplit ==
    /\ ps.pc = "start"
    /\ ps' = [ps EXCEPT !.pc = "loop", !.slideMatches = split(ps.text), !.i = 2]
    /\ UNCHANGED <<reqs, now, disk, writes, calls, pending, tp>>

\* One iteration of the loop; origin notes the block each record came from.
ParseIterate ==
    /\ ps.pc = "loop"
    /\ ps.i <= Len(ps.slideMatches)
    /\ LET pushed == ParseBlock(ps.slideMatches, ps.i)
       IN  ps' = [ps EXCEPT !.slides = @ \o pushed,
                            !.origin = @ \o [k \in 1..Len(pushed) |-> ps.i \div 2],
                            !.i = @ + 2]
    /\ UNCHANGED <<reqs, now, disk, writes, calls, pending, tp>>

\* return slides
ParseReturn ==
    /\ ps.pc = "loop"
    /\ ps.i > Len(ps.slideMatches)
    /\ ps' = [ps EXCEPT !.pc = "done"]
    /\ UNCHANGED <<reqs, now, disk, writes, calls, pending, tp>>

-----------------------------------------------------------------------------
(* Inputs of the server specifications *)

Blank == <<" ", " ">>

SummarisePrompt ==
    <<"S", "u", "m", "m", "a", "r", "i", "s", "e", ":", " ",
      "{", "t", "r", "a", "n", "s", "c", "r", "i", "p", "t", "}">>

TranscriptText ==
    <<"C", "a", "t", "s", " ", "a", "r", "e", " ", "i", "n", "d", "e", "p", "e", "n",
      "d", "e", "n", "t", ".", " ", "D", "o", "g", "s", " ", "a", "r", "e", " ",
      "l", "o", "y", "a", "l", ".">>

SlidePrompt ==
    <<"{", "h", "e", "a", "d", "i", "n", "g", "}", ":", " ",
      "{", "e", "x", "p", "l", "a", "n", "a", "t", "i", "o", "n", "}">>

\* The generated text of the end-to-end scenario.
TwoSlidesText ==
    <<"S", "l", "i", "d", "e", " ", "1", "\n", "H", "e", "a", "d", "i", "n", "g", ":",
      " ", "C", "a", "t", "s", "\n", "E", "x", "p", "l", "a", "n", "a", "t", "i", "o",
      "n", ":", " ", "I", "n", "d", "e", "p", "e", "n", "d", "e", "n", "t", ".", "\n",
      "S", "l", "i", "d", "e", " ", "2", "\n", "H", "e", "a", "d", "i", "n", "g", ":",
      " ", "D", "o", "g", "s", "\n", "E", "x", "p", "l", "a", "n", "a", "t", "i", "o",
      "n", ":", " ", "L", "o", "y", "a", "l", ".">>

NoParts == [present |-> FALSE, items |-> <<>>]

\* What a text-generation call can come back with: a rejection, a text field,
\* content parts (one of them without text), or neither.
ContentResponses ==
    {[kind |-> "reject", text |-> Undefined, parts |-> NoParts],
     [kind |-> "text", text |-> TwoSlidesText, parts |-> NoParts],
     [kind |-> "parts", text |-> Undefined,
      parts |-> [present |-> TRUE,
                 items |-> <<<<"S", "l", "i", "d", "e", " ", "1", "\n", "H", "e", "a",
                               "d", "i", "n", "g", ":", " ", "C", "a", "t", "s", "\n">>,
                             Undefined,
                             <<"E", "x", "p", "l", "a", "n", "a", "t", "i", "o", "n",
                               ":", " ", "I", "n", "d", "e", "p", "e", "n", "d", "e",
                               "n", "t", ".">>>>]],
     [kind |-> "other", text |-> Undefined, parts |-> NoParts]}

SlideCats == [slideNumber |-> 1, heading |-> Cats, explanation |-> Independent]

SlideDogs == [slideNumber |-> 2, heading |-> Dogs, explanation |-> Loyal]

RECURSIVE SlideSeqs(_)
\* The non-empty lists of at most n slides.
SlideSeqs(n) ==
    IF n = 0 THEN {}
    ELSE LET Shorter == SlideSeqs(n - 1)
         IN  {<<SlideCats>>, <<SlideDogs>>} \cup Shorter
             \cup {<<x>> \o l : x \in {SlideCats, SlideDogs}, l \in Shorter}

ValidSlideLists == {SlidesList(l) : l \in SlideSeqs(MaxSlides)}

\* The inputs of the one-request specification: each field missing, empty,
\* blank or given.
AnyPrompts == {Undefined, EmptyStr, Blank, ARedSquare, SlidePrompt}

AnyContentPrompts == {Undefined, EmptyStr, Blank, SummarisePrompt}

AnyTranscripts == {Undefined, EmptyStr, Blank, TranscriptText}

AnyHeadings == {Undefined, EmptyStr, Blank, Cats}

AnyExplanations == {Undefined, EmptyStr, Blank, Independent}

AnySlideLists == {NoSlides, SlidesList(<<>>)} \cup ValidSlideLists

AnyUrls == {NoUrl, UrlOf(EarlierFile), UrlOf(FileName(2, 0))}

-----------------------------------------------------------------------------
(* Specifications *)

ServerInit ==
    /\ reqs = [r \in Reqs |-> IdleReq]
    /\ now = 1
    /\ disk = {EarlierFile}
    /\ writes = {}
    /\ calls = [r \in Reqs |-> <<>>]
    /\ pending = {}

Init == ServerInit /\ tp = TpIdle /\ ps = PsIdle

\* The server with concurrent requests, each with usable inputs or a blank prompt.
Next ==
    \/ \E r \in Reqs : ContentArrive(r, {SummarisePrompt}, {TranscriptText})
    \/ \E r \in Reqs : ContentResolve(r, ContentResponses)
    \/ \E r \in Reqs : FirstArrive(r, {Blank, ARedSquare}, {Cats}, {Independent}, {1, 2})
    \/ \E r \in Reqs : FirstResolve(r)
    \/ \E r \in Reqs : RemainingArrive(r, {Blank, SlidePrompt}, ValidSlideLists,
                                       {UrlOf(EarlierFile)})
    \/ \E r \in Reqs : RemainingResolve(r)
    \/ Tick

Spec == Init /\ [][Next]_vars

\* The server with one request, whose every field may be missing, empty or blank.
NextOne ==
    \/ ContentArrive(1, AnyContentPrompts, AnyTranscripts)
    \/ ContentResolve(1, ContentResponses)
    \/ FirstArrive(1, AnyPrompts, AnyHeadings, AnyExplanations, {1, 2})
    \/ FirstResolve(1)
    \/ RemainingArrive(1, AnyPrompts, AnySlideLists, AnyUrls)
    \/ RemainingResolve(1)
    \/ Tick

SpecOne == Init /\ [][NextOne]_vars

PipelineInit ==
    /\ ServerInit
    /\ ps = PsIdle
    /\ tp \in [pc : {"start"}, prompt : ChunkTexts(MaxChunks),
               heading : PipelineHeadings, explanation : PipelineExplanations,
               templated : {<<>>}, finalPrompt : {<<>>}, contents : {<<>>}]

PipelineNext == PipelineCheck \/ PipelineReplace \/ PipelineGuard \/ PipelineSend

SpecPipeline == PipelineInit /\ [][PipelineNext]_vars

ParseInit ==
    /\ ServerInit
    /\ tp = TpIdle
    /\ \E blocks \in BlockLists(MaxBlocks), preamble \in Preambles :
          ps = [PsIdle EXCEPT !.pc = "start", !.blocks = blocks,
                              !.text = preamble \o BlocksText(blocks)]

ParseNext == ParseSplit \/ ParseIterate \/ ParseReturn

SpecParse == ParseInit /\ [][ParseNext]_vars

-----------------------------------------------------------------------------
(* Properties *)

\* The requests of the remaining-images handler that passed its top-level
\* checks: a non-empty slides list and a reference image that exists and was read.
PassedPreconditions(q) ==
    /\ q.handler = "remaining"
    /\ q.slides.present
    /\ Len(q.slides.items) > 0
    /\ q.firstImageUrl.given
    /\ q.refExisted
    /\ q.readOk

\* C1: in the remaining-images handler, for a non-empty slides list and a
\* reference image that exists, whatever items fail (blank prompt, rejected
\* call, no candidates, no image part, write failure): every item processed has
\* exactly one result, in input order, carrying its slide's slideNumber, with
\* status "failed" and an error message if and only if the item failed and
\* "completed" otherwise; the handler only ever waits for the next call or has
\* answered, and its answer is the outer success with one result per slide, so
\* a failed item never stops the ones after it.
C1_PerSlideIsolation ==
    \A r \in Reqs :
        LET q == reqs[r]
        IN  PassedPreconditions(q) =>
              /\ Len(q.results) = Len(q.outcomes)
              /\ \A i \in 1..Len(q.results) :
                    /\ q.results[i].slideNumber = q.slides.items[i].slideNumber
                    /\ q.results[i].status = "failed" <=> q.outcomes[i] # "ok"
                    /\ q.results[i].status \in {"failed", "completed"}
                    /\ q.results[i].status = "failed" => q.results[i].error # ""
              /\ q.pc \in {"awaitRemaining", "done"}
              /\ q.pc = "done" =>
                    /\ q.status = 200
                    /\ Len(q.results) = Len(q.slides.items)

\* C1 witness: a finished request whose first slide failed and whose second
\* slide was still generated.
C1_Witness ==
    \E r \in Reqs :
        /\ PassedPreconditions(reqs[r])
        /\ reqs[r].pc = "done"
        /\ Len(reqs[r].results) = 2
        /\ reqs[r].results[1].status = "failed"
        /\ reqs[r].results[2].status = "completed"

\* A value that is missing, empty or made of white space only.
MissingOrBlank(v) == v = Undefined \/ \A i \in 1..Len(v) : IsSpace(v[i])

\* A required input of the request is missing or blank, as the claim has it.
BlankInput(q) ==
    \/ q.handler = "content" /\ (MissingOrBlank(q.transcript) \/ MissingOrBlank(q.prompt))
    \/ q.handler = "first" /\ \/ MissingOrBlank(q.heading)
                              \/ MissingOrBlank(q.explanation)
                              \/ MissingOrBlank(q.prompt)
    \/ q.handler = "remaining" /\ \/ ~q.slides.present
                                  \/ q.slides.items = <<>>
                                  \/ ~q.firstImageUrl.given
                                  \/ ~q.refExisted
                                  \/ MissingOrBlank(q.prompt)

\* The request was answered with an error that names the input at fault: a
\* 400, or for the first-image prompt a 500 carrying "Prompt is required", or
\* for the remaining-images prompt one failed result per slide carrying it
\* (when the reference image could not be read, the 500 of that read).
ReportedToCaller(q) ==
    /\ q.pc = "done"
    /\ \/ q.status = 400 /\ q.error # ""
       \/ q.handler = "first" /\ q.status = 500 /\ q.message = PromptRequiredFirst
       \/ /\ q.handler = "remaining"
          /\ q.status = 200
          /\ Len(q.results) = Len(q.slides.items)
          /\ \A i \in 1..Len(q.results) :
                /\ q.results[i].status = "failed"
                /\ q.results[i].error = PromptRequiredRemaining
       \/ q.handler = "remaining" /\ ~q.readOk /\ q.status = 500 /\ q.message = "read error"

NoExternalCall(r) == calls[r] = <<>> /\ \A c \in pending : c.req # r

\* C2: in all three handlers, a required input that is missing or
\* blank (white space only) is reported to the caller as an error and the
\* request makes no call to the external API.
C2_BlankInputRejected ==
    \A r \in Reqs :
        (reqs[r].pc # "idle" /\ BlankInput(reqs[r])) =>
            NoExternalCall(r) /\ ReportedToCaller(reqs[r])

\* C3: no two image writes target the same file name, so no write overwrites
\* an earlier image.
C3_UniqueFileNames ==
    \A w1 \in writes, w2 \in writes : w1 # w2 => w1.file # w2.file

RECURSIVE SimultaneousFrom(_, _, _, _)
\* The template from index i on with each {heading} and {explanation} of the
\* template itself replaced by the literal value.
SimultaneousFrom(template, heading, explanation, i) ==
    LET Places == {p \in i..Len(template) :
                      \/ StartsAt(template, p, HeadingPlaceholder)
                      \/ StartsAt(template, p, ExplanationPlaceholder)}
    IN  IF Places = {} THEN SubSeq(template, i, Len(template))
        ELSE LET p == Min(Places)
             IN  SubSeq(template, i, p - 1)
                 \o (IF StartsAt(template, p, HeadingPlaceholder)
                     THEN heading
                          \o SimultaneousFrom(template, heading, explanation,
                                              p + Len(HeadingPlaceholder))
                     ELSE explanation
                          \o SimultaneousFrom(template, heading, explanation,
                                              p + Len(ExplanationPlaceholder)))

\* C4: the templated prompt is the template with each {heading} replaced by the
\* literal heading and each {explanation} by the literal explanation,
\* simultaneously: inserted text is not scanned or altered again.
C4_IndependentSubstitution ==
    tp.pc \in {"templated", "guarded", "sent"} =>
        tp.templated = SimultaneousFrom(tp.prompt, tp.heading, tp.explanation, 1)

\* The token occurs in the text, whatever the case of the text's letters.
Mentions(text, token) == \E i \in 1..Len(text) : StartsAtCI(text, i, token)

NamesNoImageWord(text) ==
    /\ ~Mentions(text, <<"g", "e", "n", "e", "r", "a", "t", "e">>)
    /\ ~Mentions(text, <<"c", "r", "e", "a", "t", "e">>)
    /\ ~Mentions(text, <<"i", "m", "a", "g", "e">>)

\* C5: the text sent to the image API is "Generate an image: " followed by the
\* templated prompt when the prompt contains none of "generate", "create",
\* "image" in any case, and the templated prompt itself otherwise.
C5_InstructionGuard ==
    tp.pc = "sent" =>
        tp.contents = IF NamesNoImageWord(tp.templated)
                      THEN InstructionPrefix \o tp.templated
                      ELSE tp.templated

\* C5 witness: "A red square" was sent as "Generate an image: A red square".
C5_Witness ==
    /\ tp.pc = "sent"
    /\ tp.templated = ARedSquare
    /\ tp.contents = InstructionPrefix \o ARedSquare

\* C6 as stated: the templated prompt "Draw a blue circle" is sent unchanged.
C6_DrawUnchanged ==
    (tp.pc = "sent" /\ tp.templated = DrawABlueCircle) => tp.contents = DrawABlueCircle

\* C6 as amended: the templated prompt "Draw a blue circle", which contains
\* none of the three words, is sent as "Generate an image: Draw a blue circle".
C6_DrawPrefixed ==
    (tp.pc = "sent" /\ tp.templated = DrawABlueCircle) =>
        tp.contents = InstructionPrefix \o DrawABlueCircle

\* C6 witness: the prompt "Draw a blue circle" went through the guard and was sent.
C6_Witness == tp.pc = "sent" /\ tp.templated = DrawABlueCircle

\* The block has no heading or explanation value: no label, or nothing after it.
LacksValue(v) == v = Undefined \/ trim(v) = EmptyStr

\* The block has a heading and an explanation that still hold text once the
\* emphasis markers are taken out.
WellFormed(b) ==
    /\ ~LacksValue(b.heading)
    /\ ~LacksValue(b.explanation)
    /\ trim(StripEmphasis(b.heading)) # EmptyStr
    /\ trim(StripEmphasis(b.explanation)) # EmptyStr

\* C7: a block without a heading value or without an explanation value gives
\* no record, and every well-formed block of the same text gives its record,
\* in source order.
C7_MalformedBlocksDropped ==
    ps.pc = "done" =>
        /\ \A k \in 1..Len(ps.origin) :
              /\ ~LacksValue(ps.blocks[ps.origin[k]].heading)
              /\ ~LacksValue(ps.blocks[ps.origin[k]].explanation)
        /\ \A j \in 1..Len(ps.blocks) :
              WellFormed(ps.blocks[j]) => \E k \in 1..Len(ps.origin) : ps.origin[k] = j
        /\ \A k \in 1..(Len(ps.origin) - 1) : ps.origin[k] < ps.origin[k + 1]

\* C8: every record the parser returns has a slideNumber of at least 1 and a
\* heading and an explanation that are not blank and carry no white space
\* around them.
C8_RecordInvariant ==
    \A k \in 1..Len(ps.slides) :
        /\ ps.slides[k].slideNumber >= 1
        /\ trim(ps.slides[k].heading) # EmptyStr
        /\ trim(ps.slides[k].heading) = ps.slides[k].heading
        /\ trim(ps.slides[k].explanation) # EmptyStr
        /\ trim(ps.slides[k].explanation) = ps.slides[k].explanation

\* C9: for a text made of k well-formed blocks the parser returns k records in
\* source order, the i-th with the number written in the i-th marker and the
\* heading and explanation of that block as written, less the emphasis
\* markers; for a text without a marker it returns the empty sequence.
C9_WellFormedRoundTrip ==
    (ps.pc = "done" /\ \A j \in 1..Len(ps.blocks) : WellFormed(ps.blocks[j])) =>
        /\ Len(ps.slides) = Len(ps.blocks)
        /\ \A j \in 1..Len(ps.slides) :
              /\ ps.slides[j].slideNumber = parseInt(ps.blocks[j].num)
              /\ ps.slides[j].heading = StripEmphasis(ps.blocks[j].heading)
              /\ ps.slides[j].explanation = StripEmphasis(ps.blocks[j].explanation)

\* C10: within one remaining-images request at most one external call is in
\* flight; the call in flight is the one for the slide after the results
\* appended so far; and the calls were issued in input slide order.
C10_Sequential ==
    \A r \in Reqs :
        reqs[r].handler = "remaining" =>
            LET mine == {c \in pending : c.req = r}
            IN  /\ Cardinality(mine) <= 1
                /\ \A c \in mine : c.idx = Len(reqs[r].results) + 1
                /\ \A k \in 1..Len(calls[r]) : calls[r][k].idx = k
                /\ Len(calls[r]) <= Len(reqs[r].results) + 1
                /\ Len(calls[r]) <= Len(reqs[r].slides.items)

\* C10 witness: the call for the second slide is in flight after the first
\* slide's result was appended.
C10_Witness ==
    \E r \in Reqs :
        /\ reqs[r].handler = "remaining"
        /\ Len(reqs[r].results) = 1
        /\ PendingCall(r, 2) \in pending
        /\ Len(calls[r]) = 2

\* The writes request r made, and the files they went to.
WritesOf(r) == {w \in writes : w.req = r}

FilesOf(r) == {w.file : w \in WritesOf(r)}

\* C11: image files are written only for successful generations. For a
\* remaining-images request, the files it wrote are as many as its results
\* with status "completed"; each completed result's imageUrl names the file
\* written for that item; each failed result has imageUrl null and comes with
\* no file write. A first-image request that ends in a failure other than a
\* write failure (validation error, rejected call, no candidates, no content
\* parts, no image part) wrote nothing to the output directory.
C11_FilesOnlyForSuccess ==
    \A r \in Reqs :
        LET q == reqs[r]
            completed == {i \in 1..Len(q.results) : q.results[i].status = "completed"}
        IN  /\ q.handler = "remaining" =>
                  /\ Cardinality(FilesOf(r)) = Cardinality(completed)
                  /\ \A i \in 1..Len(q.results) :
                        IF i \in completed
                        THEN /\ q.results[i].imageUrl \in disk
                             /\ \E w \in WritesOf(r) :
                                    /\ w.idx = i
                                    /\ w.file = q.results[i].imageUrl
                                    /\ w.returned
                        ELSE /\ q.results[i].imageUrl = NoFile
                             /\ \A w \in WritesOf(r) : w.idx # i
            /\ (q.handler = "first" /\ q.pc = "done" /\ q.status # 200
                    /\ q.message # "write error") => WritesOf(r) = {}

====
